---- MODULE Spec2Model ----
(***************************************************************************)
(* Model of scripts/icon-cfg/ubuntu20.cpu.py: the ICON configure driver.   *)
(*                                                                         *)
(* One process run is main(): parse_args, check_dependencies,              *)
(* prepare_source, check_compilers, generate_configure_script and the      *)
(* "bash configure.sh" subprocess.  The file system (source directory,     *)
(* build directory, configure.sh) outlives a run, so the model lets        *)
(* several runs follow each other on the same file system.                 *)
(*                                                                         *)
(* Text is a sequence of atoms: a directory or a compiler path is one      *)
(* atom, a library file name is spelled character by character (the code   *)
(* slices it), and the literal pieces of the script template are atoms.    *)
(***************************************************************************)
EXTENDS Integers, Sequences, FiniteSets, TLC

VARIABLES
    deps,       \* the DEPS catalog of this program text
    args,       \* Args of the current run
    seed,       \* the str hash salt of the current interpreter process
    now,        \* logical clock: the number of the current run
    pc,         \* the step main is about to run
    steps,      \* the steps main has started in this run, in order
    effects,    \* the side effects of this run, in order
    failure,    \* the exception that ended this run, "" if none
    exit_code,  \* the exit status of this run, -1 while it runs
    iconDir,    \* args.icon_dir on disk
    buildDir,   \* whether args.build_dir exists
    cfgFile,    \* <build_dir>/configure.sh on disk
    ret         \* what the last generate_configure_script call returned

vars == <<deps, args, seed, now, pc, steps, effects, failure, exit_code,
          iconDir, buildDir, cfgFile, ret>>

\* ---------------------------------------------------------------- bounds

\* Number of process runs that follow each other on one file system.
MaxRuns == 2

\* Number of distinct str hash salts an interpreter process may start with.
HashSeeds == 2

\* ------------------------------------------------------------ text helpers

None == "None"

startswith(s, p) ==
    Len(s) >= Len(p) /\ SubSeq(s, 1, Len(p)) = p

endswith(s, p) ==
    Len(s) >= Len(p) /\ SubSeq(s, Len(s) - Len(p) + 1, Len(s)) = p

RECURSIVE join(_, _)
join(sep, parts) ==
    IF parts = <<>> THEN <<>>
    ELSE IF Len(parts) = 1 THEN parts[1]
    ELSE parts[1] \o <<sep>> \o join(sep, Tail(parts))

\* ---------------------------------------------------------------- catalog

DepInfo(name, apt_package, include_dir, lib_dir, test_h, lib) ==
    [name |-> name, apt_package |-> apt_package, include_dir |-> include_dir,
     lib_dir |-> lib_dir, test_h |-> test_h, lib |-> lib]

DEPS ==
    << DepInfo("lapack", "liblapacke-dev", "/usr/include",
               "/usr/lib/x86_64-linux-gnu/lapack", "lapacke.h",
               <<"l","i","b","l","a","p","a","c","k",".","s","o">>),
       DepInfo("blas", "libblas-dev", "/usr/include/x86_64-linux-gnu",
               "/usr/lib/x86_64-linux-gnu/blas", "cblas.h",
               <<"l","i","b","b","l","a","s",".","s","o">>),
       DepInfo("NetCDF-Fortran", "libnetcdff-dev", "/usr/include",
               "/usr/lib/x86_64-linux-gnu", "netcdf.inc",
               <<"l","i","b","n","e","t","c","d","f",".","s","o">>),
       DepInfo("NetCDF-C", "libnetcdf-dev", "/usr/include",
               "/usr/lib/x86_64-linux-gnu", "netcdf.h",
               <<"l","i","b","n","e","t","c","d","f","f",".","s","o">>),
       DepInfo("zlib", "zlib1g-dev", "/usr/include",
               "/usr/lib/x86_64-linux-gnu", "zlib.h",
               <<"l","i","b","z",".","s","o">>),
       DepInfo("szip", "libsz2", "/usr/include",
               "/usr/lib/x86_64-linux-gnu", "szlib.h",
               <<"l","i","b","s","z",".","s","o">>),
       DepInfo("xml2", "libxml2-dev", "/usr/include/libxml2",
               "/usr/lib/x86_64-linux-gnu", "libxml/parser.h",
               <<"l","i","b","x","m","l","2",".","s","o">>) >>

\* The one-descriptor catalog of the specification's example scenario.
ZlibCatalog ==
    << DepInfo("zlib", "zlib1g-dev", "/usr/include", "/usr/lib", "zlib.h",
               <<"l","i","b","z",".","s","o">>) >>

\* A catalog with a static library, a name that embeds a suffix, a name
\* with no known suffix, and directories shared between descriptors.
MixedCatalog ==
    << DepInfo("m", "libc6-dev", "/usr/include", "/usr/lib", "math.h",
               <<"l","i","b","m",".","a">>),
       DepInfo("so", "libso-dev", "/usr/include/libxml2", "/usr/lib", "so.h",
               <<"l","i","b","s","o",".","s","o",".","a">>),
       DepInfo("dl", "libdl-dev", "/usr/include",
               "/usr/lib/x86_64-linux-gnu", "dlfcn.h",
               <<"l","i","b","d","l">>) >>

Catalogs == {DEPS, ZlibCatalog, MixedCatalog}


\* ------------------------------------------------------- argument values

IconDir == "/src/icon"
BuildDir == "/build"
CCompilers == {"/usr/bin/gcc"}
FortranCompilers == {"/usr/bin/gfortran"}
ClawPaths == {"/usr/bin/clawfc"}
Remotes == {"git@host:icon.git", "git@host:icon-fork.git"}
Branches == {"master", "dev"}
RequestedBranches == {"dev"}

\* class Args, as parse_args fills it in.
ArgsSet ==
    [icon_dir : {IconDir}, build_dir : {BuildDir},
     cc : CCompilers, fc : FortranCompilers,
     claw : ClawPaths \cup {None},
     icon_git_repo : Remotes \cup {None},
     icon_git_branch : RequestedBranches \cup {None},
     mpi : BOOLEAN]

parse_args(a) == a \in ArgsSet

\* ------------------------------------------------- str sets and their order

\* Every directory a catalog names, in the order of the unsalted hashes.
AllDirs ==
    << "/usr/include", "/usr/include/x86_64-linux-gnu", "/usr/include/libxml2",
       "/usr/lib", "/usr/lib/x86_64-linux-gnu", "/usr/lib/x86_64-linux-gnu/blas",
       "/usr/lib/x86_64-linux-gnu/lapack" >>

\* Iterating a set of str yields its elements in the order of their salted
\* hashes: one order per process (salt sd), not one order per program.
set_iter(S, sd) ==
    LET base == SelectSeq(AllDirs, LAMBDA d : d \in S)
        n == Len(base)
        k == IF n = 0 THEN 0 ELSE sd % n
    IN  SubSeq(base, k + 1, n) \o SubSeq(base, 1, k)

include_dirs(catalog) == {catalog[i].include_dir : i \in DOMAIN catalog}

lib_dirs(catalog) == {catalog[i].lib_dir : i \in DOMAIN catalog}

\* ----------------------------------------------- generate_configure_script

NL == "\n"
Q == "\""

\* Mutant of link_name: the '.a' case is forgotten.
link_name_so_only(lib) ==
    LET l == SubSeq(lib, 4, Len(lib))
    IN  IF endswith(l, <<".", "s", "o">>) THEN SubSeq(l, 1, Len(l) - 3) ELSE l

\* lib[3:], then one of the suffixes '.a' / '.so' cut off.
link_name(lib) ==
    LET l == SubSeq(lib, 4, Len(lib))
    IN  IF endswith(l, <<".", "a">>) THEN SubSeq(l, 1, Len(l) - 2)
        ELSE IF endswith(l, <<".", "s", "o">>) THEN SubSeq(l, 1, Len(l) - 3)
        ELSE l

libs_of(catalog) == [i \in DOMAIN catalog |-> link_name(catalog[i].lib)]

inc_str(catalog, sd) ==
    LET order == set_iter(include_dirs(catalog), sd)
    IN  join(" ", [i \in DOMAIN order |-> <<"-I", order[i]>>])

lib_dirs_str(catalog, sd) ==
    LET order == set_iter(lib_dirs(catalog), sd)
    IN  join(" ", [i \in DOMAIN order |-> <<"-L", order[i]>>])

libs_str(catalog) ==
    LET libs == libs_of(catalog)
    IN  join(" ", [i \in DOMAIN libs |-> <<"-l">> \o libs[i]])

export(var, value) == <<"export ", var, "=", Q>> \o value \o <<Q>>

cfg_defs(a, catalog, sd) ==
    <<NL>> \o export("CC", <<a.cc>>) \o <<NL>>
           \o export("FC", <<a.fc>>) \o <<NL>>
           \o export("CFLAGS", inc_str(catalog, sd)) \o <<NL>>
           \o export("CPPFLAGS", inc_str(catalog, sd)) \o <<NL>>
           \o export("FCFLAGS", inc_str(catalog, sd)) \o <<NL>>
           \o export("LDFLAGS", lib_dirs_str(catalog, sd)) \o <<NL>>
           \o export("LIBS", libs_str(catalog)) \o <<NL>>
           \o (IF a.claw # None THEN export("CLAW", <<a.claw>>) ELSE <<>>)

\* Mutant of cfg_flags: the mpi case renders a flag instead of asserting.
cfg_flags_mpi_rendered(a) ==
    LET claw == IF a.claw # None THEN << <<"--enable-claw">> >> ELSE <<>>
    IN  [ok |-> TRUE, failure |-> "",
         flags |-> claw \o << <<IF a.mpi THEN "--enable-mpi" ELSE "--disable-mpi">> >>]

\* cfg_flags; "Not implemented" stands for the failed assertion of line 190.
cfg_flags(a) ==
    LET claw == IF a.claw # None THEN << <<"--enable-claw">> >> ELSE <<>>
    IN  IF a.mpi THEN [ok |-> FALSE, failure |-> "Not implemented", flags |-> <<>>]
        ELSE [ok |-> TRUE, failure |-> "",
              flags |-> claw \o << <<"--disable-mpi">> >>]

cfg_script(a, catalog, sd, flags) ==
    <<NL, "#!/bin/bash", NL>> \o cfg_defs(a, catalog, sd)
        \o <<NL, a.icon_dir, "/configure", " ">> \o join(" ", flags) \o <<NL>>

\* Lines 159-200: the rendered text, or the assertion that stopped it.
render(a, catalog, sd) ==
    IF \E i \in DOMAIN catalog : ~startswith(catalog[i].lib, <<"l", "i", "b">>)
    THEN [ok |-> FALSE, failure |-> "AssertionError", script |-> <<>>]
    ELSE LET f == cfg_flags(a)
         IN  IF ~f.ok THEN [ok |-> FALSE, failure |-> f.failure, script |-> <<>>]
             ELSE [ok |-> TRUE, failure |-> "",
                   script |-> cfg_script(a, catalog, sd, f.flags)]

NoFile == [exists |-> FALSE, content |-> <<>>, mtime |-> 0]

\* Lines 203-210: what happens to configure.sh and in which order.
file_effects(file, script) ==
    (IF file.exists
        THEN << <<"read", "configure.sh">> >>
             \o (IF script # file.content
                     THEN << <<"remove", "configure.sh">> >> ELSE <<>>)
        ELSE <<>>)
    \o << <<"write", "configure.sh">> >>

os_remove(file) == NoFile

\* Mutant of open_w_write: the file is opened with 'a'.
open_a_write(file, text, t) ==
    [exists |-> TRUE, content |-> file.content \o text, mtime |-> t]

\* open(path, 'w') and f.write(text): the file is created or truncated.
open_w_write(file, text, t) ==
    [exists |-> TRUE, content |-> text, mtime |-> t]

write_script(file, script, t) ==
    LET kept == IF file.exists /\ script # file.content
                    THEN os_remove(file) ELSE file
    IN  open_w_write(kept, script, t)

\* Args before parse_args has run.
NoArgs ==
    [icon_dir |-> IconDir, build_dir |-> BuildDir, cc |-> None, fc |-> None,
     claw |-> None, icon_git_repo |-> None, icon_git_branch |-> None,
     mpi |-> FALSE]

\* Nothing returned yet.
NoRet == [args |-> NoArgs, file |-> <<>>, script |-> <<>>]

\* The whole call: its outcome, the file system after it, what it returned.
generate_configure_script(a, catalog, sd, bdir, file, t) ==
    LET r == render(a, catalog, sd)
    IN  IF ~r.ok
        THEN [ok |-> FALSE, failure |-> r.failure, buildDir |-> bdir,
              cfgFile |-> file, effects |-> <<>>, ret |-> NoRet]
        ELSE [ok |-> TRUE, failure |-> "", buildDir |-> TRUE,
              cfgFile |-> write_script(file, r.script, t),
              effects |-> << <<"makedirs", a.build_dir>> >>
                          \o file_effects(file, r.script),
              ret |-> [args |-> a, file |-> <<a.build_dir, "configure.sh">>,
                       script |-> r.script]]


\* ---------------------------------------------------------- prepare_source

\* The submodules a checkout of the ICON repository declares: two at the
\* top level, one of them with a submodule of its own.
children(path) ==
    CASE path = ""      -> <<"sub_a", "sub_b">>
      [] path = "sub_a" -> <<"sub_a/nested">>
      [] OTHER          -> <<>>

AllSubmodules == {"sub_a", "sub_b", "sub_a/nested"}

AbsentDir == [kind |-> "absent", url |-> None, branch |-> None, inited |-> {}]

PlainDir == [kind |-> "dir", url |-> None, branch |-> None, inited |-> {}]

Checkout(url, branch, inited) ==
    [kind |-> "checkout", url |-> url, branch |-> branch, inited |-> inited]

\* Mutant of dir_exists: the test is made on the parent directory.
dir_exists_parent(dir) == TRUE

dir_exists(dir) == dir.kind \in {"dir", "checkout"}

\* Mutant of requested_branch: no default for a missing branch.
requested_branch_no_default(a) == a.icon_git_branch

\* Lines 128-130.
requested_branch(a) ==
    IF a.icon_git_branch = None THEN "master" ELSE a.icon_git_branch

\* Mutant of check_existing: the branch is not compared.
check_existing_url_only(dir, git_link, git_branch) ==
    IF dir.kind # "checkout" THEN "InvalidGitRepositoryError"
    ELSE IF dir.url # git_link THEN "different repository"
    ELSE ""

\* Lines 133-137: git.Repo on the existing directory and the two assertions.
check_existing(dir, git_link, git_branch) ==
    IF dir.kind # "checkout" THEN "InvalidGitRepositoryError"
    ELSE IF dir.url # git_link THEN "different repository"
    ELSE IF dir.branch # git_branch THEN "different branch"
    ELSE ""

\* Line 144: git.Repo.clone_from(git_link, icon_dir, branch=git_branch).
clone_from(git_link, git_branch) == Checkout(git_link, git_branch, {})

\* repo.submodules: the submodules of the parent repository itself.
repo_submodules(dir) == children("")

\* Lines 151-153: submodule.update(init=True) on each of repo.submodules;
\* update's recursive parameter is left at its default, False.
update_submodules(dir) ==
    LET subs == repo_submodules(dir)
    IN  [dir |-> [dir EXCEPT !.inited = @ \cup {subs[i] : i \in DOMAIN subs}],
         effects |-> [i \in DOMAIN subs |-> <<"submodule.update", subs[i]>>]]

prepare_source(a, dir) ==
    IF a.icon_git_repo # None
    THEN LET git_link == a.icon_git_repo
             git_branch == requested_branch(a)
             err == IF dir_exists(dir)
                        THEN check_existing(dir, git_link, git_branch) ELSE ""
             repo == IF dir_exists(dir) THEN dir
                                        ELSE clone_from(git_link, git_branch)
             cloned == IF dir_exists(dir) THEN <<>>
                       ELSE << <<"clone", git_link, git_branch>> >>
             upd == update_submodules(repo)
         IN  IF err # ""
             THEN [ok |-> FALSE, failure |-> err, dir |-> dir, effects |-> <<>>]
             ELSE [ok |-> TRUE, failure |-> "", dir |-> upd.dir,
                   effects |-> cloned \o upd.effects]
    ELSE IF dir_exists(dir)
         THEN [ok |-> TRUE, failure |-> "", dir |-> dir, effects |-> <<>>]
         ELSE [ok |-> FALSE, failure |-> "ICON source dir does not exist",
               dir |-> dir, effects |-> <<>>]

\* ------------------------------------------- check_dependencies, compilers

\* The loop of lines 109-118 stops at the first descriptor with one of its
\* four assertions failing; bad is its index, 0 when every descriptor passes.
check_dependencies(catalog, bad) ==
    IF bad \in DOMAIN catalog THEN "dependency not satisfied" ELSE ""

\* present: the paths among cc, fc and claw that are files.
check_compilers(a, present) ==
    IF a.cc \notin present THEN "C compiler not found"
    ELSE IF a.fc \notin present THEN "Fortran compiler not found"
    ELSE IF a.claw # None /\ a.claw \notin present THEN "CLAW compiler not found"
    ELSE ""


\* -------------------------------------------------------------------- main

\* Mutant of next_step: the compilers are checked before the source.
next_step_compilers_first(step) ==
    CASE step = "check_dependencies"        -> "check_compilers"
      [] step = "check_compilers"           -> "prepare_source"
      [] step = "prepare_source"            -> "generate_configure_script"
      [] step = "generate_configure_script" -> "configure"
      [] OTHER                              -> "exited"

\* The step main runs after `step` has returned.
next_step(step) ==
    CASE step = "check_dependencies"        -> "prepare_source"
      [] step = "prepare_source"            -> "check_compilers"
      [] step = "check_compilers"           -> "generate_configure_script"
      [] step = "generate_configure_script" -> "configure"
      [] OTHER                              -> "exited"

\* Lines 233-236 and 241: the assertion on returncode, then sys.exit(0).
configure_failure(returncode) ==
    IF returncode = 0 THEN "" ELSE "AssertionError"

\* An exception leaves main: the interpreter prints it and exits with 1.
exit_status(fail) == IF fail = "" THEN 0 ELSE 1

StaleFile == [exists |-> TRUE, content |-> <<"# stale", NL>>, mtime |-> 0]

\* The source directory before the first run: missing, a directory that is
\* no checkout, or a checkout somebody made (with or without submodules).
InitialDirs ==
    {AbsentDir, PlainDir,
     Checkout("git@host:icon.git", "master", {}),
     Checkout("git@host:icon.git", "dev", AllSubmodules),
     Checkout("git@host:icon-fork.git", "master", {"sub_a", "sub_b"})}

Init ==
    /\ deps \in Catalogs
    /\ args = NoArgs
    /\ seed = 0
    /\ now = 0
    /\ pc = "idle"
    /\ steps = <<>>
    /\ effects = <<>>
    /\ failure = ""
    /\ exit_code = -1
    /\ iconDir \in InitialDirs
    /\ \/ buildDir = FALSE /\ cfgFile = NoFile
       \/ buildDir = TRUE /\ cfgFile = StaleFile
    /\ ret = NoRet

\* A step ended: with fail = "" main goes on, otherwise the process exits.
Return(step, fail) ==
    /\ steps' = Append(steps, step)
    /\ failure' = fail
    /\ IF fail = "" /\ next_step(step) # "exited"
          THEN pc' = next_step(step) /\ exit_code' = exit_code
          ELSE pc' = "exited" /\ exit_code' = exit_status(fail)

\* A new interpreter process: main() up to parse_args.
Start ==
    /\ pc \in {"idle", "exited"}
    /\ now < MaxRuns
    /\ now' = now + 1
    /\ \E a \in ArgsSet : parse_args(a) /\ args' = a
    /\ seed' \in 0 .. (HashSeeds - 1)
    /\ pc' = "check_dependencies"
    /\ steps' = <<>>
    /\ effects' = <<>>
    /\ failure' = ""
    /\ exit_code' = -1
    /\ UNCHANGED <<deps, iconDir, buildDir, cfgFile, ret>>

CheckDependencies ==
    /\ pc = "check_dependencies"
    /\ \E bad \in 0 .. Len(deps) :
           Return("check_dependencies", check_dependencies(deps, bad))
    /\ UNCHANGED <<deps, args, seed, now, effects, iconDir, buildDir, cfgFile, ret>>

PrepareSource ==
    /\ pc = "prepare_source"
    /\ LET r == prepare_source(args, iconDir)
       IN  /\ iconDir' = r.dir
           /\ effects' = effects \o r.effects
           /\ Return("prepare_source", r.failure)
    /\ UNCHANGED <<deps, args, seed, now, buildDir, cfgFile, ret>>

CheckCompilers ==
    /\ pc = "check_compilers"
    /\ \E present \in SUBSET ({args.cc, args.fc, args.claw} \ {None}) :
           Return("check_compilers", check_compilers(args, present))
    /\ UNCHANGED <<deps, args, seed, now, effects, iconDir, buildDir, cfgFile, ret>>

GenerateConfigureScript ==
    /\ pc = "generate_configure_script"
    /\ LET r == generate_configure_script(args, deps, seed, buildDir, cfgFile, now)
       IN  /\ buildDir' = r.buildDir
           /\ cfgFile' = r.cfgFile
           /\ effects' = effects \o r.effects
           /\ ret' = IF r.ok THEN r.ret ELSE ret
           /\ Return("generate_configure_script", r.failure)
    /\ UNCHANGED <<deps, args, seed, now, iconDir>>

\* run('bash configure.sh', cwd=build_dir): the native configure decides.
Configure ==
    /\ pc = "configure"
    /\ \E returncode \in {0, 1, 2} :
           /\ effects' = Append(effects, <<"run", "bash configure.sh", returncode>>)
           /\ Return("configure", configure_failure(returncode))
    /\ UNCHANGED <<deps, args, seed, now, iconDir, buildDir, cfgFile, ret>>

Next ==
    \/ Start
    \/ CheckDependencies
    \/ PrepareSource
    \/ CheckCompilers
    \/ GenerateConfigureScript
    \/ Configure

Spec == Init /\ [][Next]_vars


\* =================================================================== claims

\* ------------------------------------------------- reading a script back

RECURSIVE split(_, _)
split(s, sep) ==
    IF \A i \in DOMAIN s : s[i] # sep THEN <<s>>
    ELSE LET k == CHOOSE i \in DOMAIN s :
                      s[i] = sep /\ \A j \in 1 .. (i - 1) : s[j] # sep
         IN  <<SubSeq(s, 1, k - 1)>> \o split(SubSeq(s, k + 1, Len(s)), sep)

Malformed == <<"<malformed>">>

\* The text between the quotes of the one line 'export <var>="..."'.
ExportValue(text, var) ==
    LET ls == split(text, NL)
        head == <<"export ", var, "=", Q>>
        idx == {i \in DOMAIN ls : startswith(ls[i], head)}
    IN  IF Cardinality(idx) # 1 THEN Malformed
        ELSE LET l == ls[CHOOSE i \in idx : TRUE]
             IN  IF Len(l) >= 5 /\ l[Len(l)] = Q
                     THEN SubSeq(l, 5, Len(l) - 1) ELSE Malformed

Tokens(value) == IF value = <<>> THEN <<>> ELSE split(value, " ")

\* A flag string holds exactly one <flag><dir> per directory of dirs.
OnePerDir(value, flag, dirs) ==
    LET ts == Tokens(value)
    IN  /\ Len(ts) = Cardinality(dirs)
        /\ \A d \in dirs : \E i \in DOMAIN ts : ts[i] = <<flag, d>>

\* The library file name without its leading 'lib' and without a trailing
\* '.so' or '.a', stated without the code's slicing order.
BareName(lib) ==
    LET rest == SubSeq(lib, 4, Len(lib))
        sufs == {suf \in {<<".", "s", "o">>, <<".", "a">>} : endswith(rest, suf)}
    IN  IF sufs = {} THEN rest
        ELSE LET suf == CHOOSE x \in sufs : TRUE
             IN  SubSeq(rest, 1, Len(rest) - Len(suf))

\* The last line of the script that is not empty.
InvocationLine(text) ==
    LET ls == SelectSeq(split(text, NL), LAMBDA l : l # <<>>)
    IN  IF ls = <<>> THEN Malformed ELSE ls[Len(ls)]

Order ==
    <<"check_dependencies", "prepare_source", "check_compilers",
      "generate_configure_script", "configure">>

Kinds(effs) == {effs[i][1] : i \in DOMAIN effs}

\* The effects the step that is being taken adds to this run's effects.
NewEffects == SubSeq(effects', Len(effects) + 1, Len(effects'))


\* ----------------------------------------------------------------- C1

\* C1: when configure.sh exists and its content equals the freshly rendered
\* script, generate_configure_script leaves the file untouched: it performs
\* no remove and no write on it and the modification time stays as it was.
C1_IdenticalFileUntouched ==
    [][ ( /\ pc = "generate_configure_script"
          /\ cfgFile.exists
          /\ render(args, deps, seed).ok
          /\ cfgFile.content = render(args, deps, seed).script )
        => ( /\ cfgFile' = cfgFile
             /\ Kinds(NewEffects) \cap {"remove", "write"} = {} ) ]_vars

\* ----------------------------------------------------------------- C2

\* C2: two successful calls of generate_configure_script with the same Args
\* and the same catalog return the same script text, the order of the -I
\* and -L flags included.
C2_SameInputsSameText ==
    [][ ( /\ pc = "generate_configure_script"
          /\ pc' = "configure"
          /\ ret # NoRet
          /\ ret.args = args )
        => ret'.script = ret.script ]_vars

\* ----------------------------------------------------------------- C3

\* C3: with args.mpi set, generate_configure_script ends with the failure
\* 'Not implemented', returns nothing, creates no build directory, leaves
\* configure.sh as it was, and main never gets to run the configure step.
C3_MpiHalts ==
    [][ /\ ( pc = "generate_configure_script" /\ args.mpi )
           => ( /\ failure' = "Not implemented"
                /\ pc' = "exited"
                /\ exit_code' = 1
                /\ buildDir' = buildDir
                /\ cfgFile' = cfgFile
                /\ ret' = ret
                /\ effects' = effects )
        /\ args'.mpi => ( /\ pc' # "configure"
                          /\ \A i \in DOMAIN steps' : steps'[i] # "configure"
                          /\ "run" \notin Kinds(effects') ) ]_vars

C3_Witness ==
    /\ pc = "exited"
    /\ failure = "Not implemented"
    /\ args.mpi
    /\ cfgFile = StaleFile

\* ----------------------------------------------------------------- C4

\* C4: with a remote R given and the target directory an existing checkout
\* of origin R0 on branch B0, prepare_source with remote R and branch B
\* ('master' when none is given) succeeds without a clone if R = R0 and
\* B = B0, and otherwise fails with a mismatch error before any submodule
\* update; a call that repeats the arguments of an earlier successful run
\* never clones.
C4_ExistingCheckout ==
    [][ /\ ( /\ pc = "prepare_source"
             /\ args.icon_git_repo # None
             /\ iconDir.kind = "checkout" )
           => LET R == args.icon_git_repo
                  B == IF args.icon_git_branch = None
                          THEN "master" ELSE args.icon_git_branch
              IN  IF R = iconDir.url /\ B = iconDir.branch
                  THEN /\ failure' = ""
                       /\ pc' = "check_compilers"
                       /\ "clone" \notin Kinds(NewEffects)
                  ELSE /\ failure' \in {"different repository", "different branch"}
                       /\ (R # iconDir.url) = (failure' = "different repository")
                       /\ pc' = "exited"
                       /\ exit_code' = 1
                       /\ NewEffects = <<>>
                       /\ iconDir' = iconDir
        /\ ( /\ pc = "prepare_source"
             /\ args.icon_git_repo # None
             /\ ret # NoRet
             /\ ret.args = args )
           => ( failure' = "" /\ "clone" \notin Kinds(NewEffects) ) ]_vars

C4_Witness ==
    /\ now = 2
    /\ pc = "check_compilers"
    /\ args.icon_git_repo # None
    /\ ret # NoRet
    /\ ret.args = args
    /\ Kinds(effects) = {"submodule.update"}

\* ----------------------------------------------------------------- C5

\* C5: with a remote given and no target directory, prepare_source clones
\* that remote exactly once, at the requested branch ('master' when none is
\* given), and updates the submodules only after the clone.
C5_CloneThenSubmodules ==
    [][ ( /\ pc = "prepare_source"
          /\ args.icon_git_repo # None
          /\ iconDir.kind = "absent" )
        => LET B == IF args.icon_git_branch = None
                       THEN "master" ELSE args.icon_git_branch
               new == NewEffects
           IN  /\ Len(new) >= 2
               /\ new[1] = <<"clone", args.icon_git_repo, B>>
               /\ \A i \in 2 .. Len(new) : new[i][1] = "submodule.update"
               /\ iconDir'.kind = "checkout"
               /\ iconDir'.url = args.icon_git_repo
               /\ iconDir'.branch = B
               /\ {"sub_a", "sub_b"} \subseteq iconDir'.inited
               /\ failure' = "" ]_vars

C5_Witness ==
    /\ pc = "check_compilers"
    /\ args.icon_git_branch = None
    /\ Len(effects) >= 2
    /\ effects[1] = <<"clone", args.icon_git_repo, "master">>
    /\ effects[2][1] = "submodule.update"

\* ----------------------------------------------------------------- C6

PreparedWithRemote ==
    /\ args.icon_git_repo # None
    /\ Len(steps) >= 2
    /\ (Len(steps) > 2 \/ pc = "check_compilers")

\* C6: whenever prepare_source returned successfully with a remote given,
\* every submodule of the checkout, at every nesting depth, has been
\* initialized and updated.
C6_AllSubmodulesUpdated ==
    PreparedWithRemote => iconDir.inited = AllSubmodules

\* ----------------------------------------------------------------- C7

\* C7: with no remote given, prepare_source succeeds exactly if the target
\* directory exists, and in both outcomes performs no version-control
\* operation, with or without a branch name.
C7_NoRemote ==
    [][ ( pc = "prepare_source" /\ args.icon_git_repo = None )
        => ( /\ (failure' = "") = (iconDir.kind \in {"dir", "checkout"})
             /\ failure' = "" => pc' = "check_compilers"
             /\ failure' # "" => (pc' = "exited" /\ exit_code' = 1)
             /\ NewEffects = <<>>
             /\ iconDir' = iconDir ) ]_vars

C7_Witness ==
    /\ pc = "check_compilers"
    /\ args.icon_git_repo = None
    /\ args.icon_git_branch = "dev"
    /\ iconDir.kind = "dir"
    /\ effects = <<>>


\* ----------------------------------------------------------------- C8

\* The side effects that belong to each step of main.
EffectsOf(step) ==
    CASE step = "prepare_source"            -> {"clone", "submodule.update"}
      [] step = "generate_configure_script" -> {"makedirs", "read", "remove", "write"}
      [] step = "configure"                 -> {"run"}
      [] OTHER                              -> {}

\* C8: main runs dependency check, source synchronization, compiler check,
\* script generation and configure in this order; a step starts only after
\* every earlier step succeeded, so the first failing step ends the run and
\* no later step's side effect occurs; the exit code is 0 exactly if all
\* five steps succeeded, the last one by the subprocess returning 0.
C8_LinearMain ==
    /\ Len(steps) <= Len(Order)
    /\ steps = SubSeq(Order, 1, Len(steps))
    /\ \A i \in DOMAIN Order :
           i > Len(steps) => Kinds(effects) \cap EffectsOf(Order[i]) = {}
    /\ pc \notin {"idle", "exited"}
           => ( /\ failure = ""
                /\ exit_code = -1
                /\ Len(steps) < Len(Order)
                /\ pc = Order[Len(steps) + 1] )
    /\ pc = "exited"
           => ( /\ exit_code \in {0, 1}
                /\ (exit_code = 0) = (failure = "")
                /\ (exit_code = 0) = ( /\ steps = Order
                                       /\ effects # <<>>
                                       /\ effects[Len(effects)]
                                            = <<"run", "bash configure.sh", 0>> )
                /\ \A i \in DOMAIN effects :
                       (effects[i][1] = "run" /\ effects[i][3] # 0) => exit_code = 1 )

C8_Witness ==
    /\ pc = "exited"
    /\ exit_code = 0
    /\ steps = Order
    /\ args.icon_git_repo # None
    /\ args.claw # None

\* ----------------------------------------------------------------- C9

\* The flags the claim expects in a script rendered for configuration a
\* from the catalog.
FlagsAsSpecified(a, catalog, text) ==
    /\ \A var \in {"CFLAGS", "CPPFLAGS", "FCFLAGS"} :
           OnePerDir(ExportValue(text, var), "-I",
                     {catalog[i].include_dir : i \in DOMAIN catalog})
    /\ OnePerDir(ExportValue(text, "LDFLAGS"), "-L",
                 {catalog[i].lib_dir : i \in DOMAIN catalog})
    /\ Tokens(ExportValue(text, "LIBS"))
           = [i \in DOMAIN catalog |-> <<"-l">> \o BareName(catalog[i].lib)]
    /\ LET ts == split(InvocationLine(text), " ")
       IN  /\ Len(ts) >= 2
           /\ ts[1] = <<a.icon_dir, "/configure">>
           /\ ts[Len(ts)] = <<"--disable-mpi">>
    /\ catalog = ZlibCatalog
           => ( /\ ExportValue(text, "CFLAGS") = <<"-I", "/usr/include">>
                /\ ExportValue(text, "LDFLAGS") = <<"-L", "/usr/lib">>
                /\ ExportValue(text, "LIBS") = <<"-l", "z">> )

\* C9: for a catalog whose library names start with 'lib' and mpi off, the
\* rendered script has one -I<dir> per distinct include directory in each
\* of CFLAGS, CPPFLAGS and FCFLAGS, one -L<dir> per distinct library
\* directory in LDFLAGS, one -l<name> per descriptor in catalog order in
\* LIBS, and an '<icon_dir>/configure' line ending in --disable-mpi; for the
\* zlib catalog: -I/usr/include, -L/usr/lib, -lz.
C9_RenderedFlags ==
    pc = "configure" => ( /\ ret.args = args
                          /\ FlagsAsSpecified(args, deps, ret.script)
                          /\ cfgFile.content = ret.script )

C9_Witness ==
    /\ ret # NoRet
    /\ pc = "configure"
    /\ deps = MixedCatalog
    /\ seed = 1
    /\ args.claw # None

\* ---------------------------------------------------------------- C10

\* C10: after any sequence of successful generate_configure_script calls,
\* configure.sh holds exactly the text the most recent call returned, with
\* nothing of an older content left in it.
C10_FileIsLastReturn ==
    ret # NoRet => ( /\ buildDir
                     /\ cfgFile.exists
                     /\ cfgFile.content = ret.script )

C10_Witness ==
    /\ now = 2
    /\ pc = "configure"
    /\ <<"remove", "configure.sh">> \in {effects[i] : i \in DOMAIN effects}
    /\ cfgFile.content = ret.script
    /\ cfgFile.mtime = 2

====
